---- MODULE Spec2Model ----
(***************************************************************************)
(* orate: the job store (orate/db/crud.py), the job endpoints              *)
(* (orate/api/jobs.py) and the background transcription task               *)
(* (orate/api/transcribe.py, orate/services/whisper.py).                   *)
(*                                                                         *)
(* Representation.  Fractions (progress) are fixed point in thousandths:   *)
(* 1.0 is One, 0.99 is 990, 0.01 is 10.  Durations and the clock are whole *)
(* seconds; eta_seconds is stored in milliseconds.  An Optional value is a *)
(* set: {} is None, {v} is the value v.  The job table is a function whose *)
(* domain is the set of ids that have a row.  A row has the columns that    *)
(* orate/db/models.py declares for Job and that the store functions set.   *)
(* One job id is modelled: rows are keyed independently and every store    *)
(* call names a single id.                                                  *)
(***************************************************************************)
EXTENDS Integers, Sequences, FiniteSets, TLC

VARIABLES
    jobs,         \* job table: id -> row
    allocated,    \* job ids handed out so far by storage.new_id("job")
    transcripts,  \* transcript table: the set of transcript ids with a row
    recs,         \* recording table and the files behind it
    task,         \* the background task of each job: position and locals
    clock,        \* wall clock, seconds
    last,         \* the last request made from outside: an endpoint or a store call
    tx,           \* one call of whisper.transcribe_audio: inputs, locals, outputs
    mc,           \* whisper._model_cache and the load_model calls under way
    srt,          \* the subtitle side of one call of whisper.transcribe_audio
    lm,           \* the store calls in flight when the store is called directly
    dt            \* the DELETE /api/transcripts requests in flight

vars == <<jobs, allocated, transcripts, recs, task, clock, last, tx, mc, srt, lm, dt>>

---------------------------------------------------------------------------
(* Bounds of the model *)

\* clock values run over 0 .. MaxTicks * TickStep
MaxTicks == 2

\* segments one inference run yields at most
MaxSegments == 2

---------------------------------------------------------------------------
(* Fixed point and program constants *)

\* 1.0, the upper clamp bound of update_job_progress
One == 1000

\* progress written with stage "loading_model"
LoadingProgress == 10

\* progress written with stage "writing_output", and the decode cap
WritingProgress == 990

DecodeCap == 990

\* cap of the time-based fallback, 0.9
FallbackCap == 900

\* horizon of the time-based fallback, seconds
FallbackHorizon == 60

\* epsilon of the eta division, 1e-3
EtaEpsilon == 1

\* seconds the clock advances per tick
TickStep == 30

JobIds == {"job_1"}

RecIds == {"rec_a", "rec_b"}

None == {}

Some(v) == {v}

Min(a, b) == IF a <= b THEN a ELSE b

Max(a, b) == IF a >= b THEN a ELSE b

---------------------------------------------------------------------------
(* The job row and the job store's operations on one row (orate/db/models.py,
   orate/db/crud.py) *)

\* variant: a Job that also declares the columns crud.py assigns
JobColumnsWithProgress ==
    {"status", "result_ref", "error", "progress", "stage", "eta_seconds",
     "started_at"}

\* the columns class Job declares, without id, kind, payload_json and the two
\* timestamps, which no claim reads
JobColumns == {"status", "result_ref", "error"}

\* the keyword arguments create_job passes to Job(...), lines 127-140
CreateJobKeywords ==
    [status |-> "queued", progress |-> 0, stage |-> "queued",
     eta_seconds |-> None, started_at |-> None,
     result_ref |-> None, error |-> None]

\* Job(**keywords): the declared fields are taken, the other keywords dropped
Construct(keywords) == [c \in JobColumns |-> keywords[c]]

\* variant: a job created already running
NewJobRowStarted == [Construct(CreateJobKeywords) EXCEPT !.status = "running"]

\* create_job: the row inserted
NewJobRow == Construct(CreateJobKeywords)

\* str(e) of the ValueError an assignment to an undeclared attribute raises,
\* '"Job" object has no field "<name>"'
NoField(name) ==
    CASE name = "progress"    -> "no_field_progress"
      [] name = "stage"       -> "no_field_stage"
      [] name = "eta_seconds" -> "no_field_eta_seconds"
      [] name = "started_at"  -> "no_field_started_at"
      [] OTHER                -> "no_field"

\* a Job object loaded into a session: its attributes, and the exception an
\* assignment to it has raised, if any
Loaded(row) == [obj |-> row, exc |-> None]

\* variant: an assignment to an undeclared attribute silently ignored
SetAttrLenient(o, name, value) ==
    IF o.exc = None /\ name \in DOMAIN o.obj
    THEN [o EXCEPT !.obj = [@ EXCEPT ![name] = value]]
    ELSE o

\* job.<name> = value: raises ValueError when Job has no field of that name;
\* the statements after a raise are not executed
SetAttr(o, name, value) ==
    IF o.exc # None THEN o
    ELSE IF name \in DOMAIN o.obj
         THEN [o EXCEPT !.obj = [@ EXCEPT ![name] = value]]
         ELSE [o EXCEPT !.exc = Some(NoField(name))]

\* job.<name> = job.<name>: the read raises AttributeError for an undeclared name
KeepAttr(o, name) ==
    IF o.exc # None \/ name \in DOMAIN o.obj THEN o
    ELSE [o EXCEPT !.exc = Some(NoField(name))]

\* mark_job_running: the assignments of lines 153-156 to a row that was found
MarkRunningRow(row, now) ==
    SetAttr(SetAttr(SetAttr(SetAttr(Loaded(row),
        "status", "running"), "stage", "loading_model"), "progress", 0),
        "started_at", Some(now))

\* variant: the clamp without its lower bound
ClampNoLower(progress) == Min(One, progress)

\* p = max(0.0, min(1.0, float(progress)))
Clamp(progress) == Max(0, Min(One, progress))

\* update_job_progress: the assignments of lines 174-177 to a row that was found
UpdateProgressRow(row, progress, stage, eta_seconds) ==
    LET o1 == SetAttr(Loaded(row), "progress", Clamp(progress))
        o2 == IF stage # None
              THEN SetAttr(o1, "stage", CHOOSE s \in stage : TRUE)
              ELSE o1
    IN IF eta_seconds # None
       THEN SetAttr(o2, "eta_seconds", eta_seconds)
       ELSE KeepAttr(o2, "eta_seconds")

\* variant: update_job_status without the status assignment
UpdateStatusRowNoStatus(row, status, result_ref, error) ==
    SetAttr(SetAttr(Loaded(row), "result_ref", result_ref), "error", error)

\* variant: update_job_status without the error assignment
UpdateStatusRowNoError(row, status, result_ref, error) ==
    SetAttr(SetAttr(Loaded(row), "status", status), "result_ref", result_ref)

\* update_job_status: the assignments of lines 194-196 to a row that was found
UpdateStatusRow(row, status, result_ref, error) ==
    SetAttr(SetAttr(SetAttr(Loaded(row),
        "status", status), "result_ref", result_ref), "error", error)

Terminal(row) == row.status \in {"done", "error"}

---------------------------------------------------------------------------
(* The store's session semantics (Session.get / Session.commit / refresh) *)

\* s.get(Job, job_id): the row, or None when the id has no row
GetJob(tbl, job_id) == IF job_id \in DOMAIN tbl THEN Some(tbl[job_id]) ELSE None

\* variant: a commit that writes every column of the object, changed or not
CommitWriteAll(tbl, job_id, loaded, obj) ==
    IF job_id \in DOMAIN tbl THEN [tbl EXCEPT ![job_id] = obj] ELSE tbl

\* s.add(job); s.commit() of a loaded object: an UPDATE of the row with that
\* id that sets the columns whose value differs from the one loaded, and
\* changes nothing when the row is gone
CommitWrite(tbl, job_id, loaded, obj) ==
    IF job_id \in DOMAIN tbl
    THEN [tbl EXCEPT ![job_id] =
            [c \in DOMAIN @ |-> IF obj[c] # loaded[c] THEN obj[c] ELSE @[c]]]
    ELSE tbl

\* s.add(job); s.commit() of a new row: an INSERT
InsertRow(tbl, job_id, row) ==
    [k \in DOMAIN tbl \cup {job_id} |-> IF k = job_id THEN row ELSE tbl[k]]

\* a store function that found its row, run with no other call in between:
\* nothing is written when an assignment raised
Committed(tbl, job_id, o) ==
    IF o.exc # None THEN tbl ELSE CommitWrite(tbl, job_id, tbl[job_id], o.obj)

---------------------------------------------------------------------------
(* The job store's functions, each run to completion (orate/db/crud.py) *)

create_job(tbl, job_id) == InsertRow(tbl, job_id, NewJobRow)

mark_job_running(tbl, job_id, now) ==
    IF GetJob(tbl, job_id) = None THEN tbl
    ELSE Committed(tbl, job_id, MarkRunningRow(tbl[job_id], now))

update_job_progress(tbl, job_id, progress, stage, eta_seconds) ==
    IF GetJob(tbl, job_id) = None THEN tbl
    ELSE Committed(tbl, job_id,
                   UpdateProgressRow(tbl[job_id], progress, stage, eta_seconds))

update_job_status(tbl, job_id, status, result_ref, error) ==
    IF GetJob(tbl, job_id) = None THEN tbl
    ELSE Committed(tbl, job_id,
                   UpdateStatusRow(tbl[job_id], status, result_ref, error))

\* crud.delete_transcript: the table without the row, and whether there was one
delete_transcript_result(trs, tr_id) == tr_id \in trs

delete_transcript(trs, tr_id) == trs \ {tr_id}

---------------------------------------------------------------------------
(* Initial state *)

NoJobs == [k \in {} |-> NewJobRow]

\* a task that has not been scheduled
IdleTask ==
    [pc |-> "idle", phase |-> "run", pend |-> None, rec |-> None,
     total |-> 0, t0 |-> 0, decoded |-> 0, nseg |-> 0, exc |-> None,
     pre |-> None, engine |-> FALSE, skipped |-> FALSE, db_raised |-> FALSE,
     dropped |-> FALSE, sent |-> None]

NoCall ==
    [op |-> "none", job |-> None, rec |-> None, progress |-> 0, stage |-> None,
     eta_seconds |-> None, result |-> "none"]

\* no call of transcribe_audio under way
IdleTx == [pc |-> "idle"]

\* the model cache as the module is imported: empty, no load_model call made
IdleMc == [pc |-> "idle"]

\* no subtitle being written
IdleSrt == [pc |-> "idle"]

\* the callers of the store when it is called directly
LMCallers == {"a", "b"}

\* a caller with no store call in flight
IdleCall == [phase |-> "idle", op |-> "none", pend |-> None]

IdleLm == [c \in LMCallers |-> IdleCall]

\* the requests that can be in DELETE /api/transcripts/{id} at the same time
DtRequests == {"r1", "r2"}

\* no transcript deletion in flight
IdleDt == [c \in DtRequests |-> [phase |-> "idle", tr |-> None]]

\* the recording table of a new database: no rows
NoRecs == [r \in RecIds |-> [row |-> FALSE, duration_s |-> 0, ingest |-> "none"]]

Init ==
    /\ jobs = NoJobs
    /\ allocated = {}
    /\ transcripts = {}
    /\ recs = NoRecs
    /\ task = [j \in JobIds |-> IdleTask]
    /\ clock = 0
    /\ last = NoCall
    /\ tx = IdleTx
    /\ mc = IdleMc
    /\ srt = IdleSrt
    /\ lm = IdleLm
    /\ dt = IdleDt

---------------------------------------------------------------------------
(* The progress estimate of _progress_cb (orate/api/transcribe.py) *)

\* variant: the decode ratio without its cap
DecodeProgressNoCap(decoded, total) == (decoded * One) \div total

\* prog = min(decoded_s / total, 0.99)
DecodeProgress(decoded, total) == Min((decoded * One) \div total, DecodeCap)

\* variant: the remaining share of the elapsed time, not divided by the rate
DecodeEtaNoRate(prog, elapsed) == elapsed * (One - prog)

\* eta = (elapsed / max(prog, 1e-3)) * (1.0 - prog), in milliseconds
DecodeEta(prog, elapsed) ==
    (elapsed * One * (One - prog)) \div Max(prog, EtaEpsilon)

\* variant: the time-based estimate without its cap
FallbackProgressNoCap(elapsed) == (elapsed * One) \div FallbackHorizon

\* prog = min(0.9, elapsed / 60.0)
FallbackProgress(elapsed) ==
    Min(FallbackCap, (elapsed * One) \div FallbackHorizon)

---------------------------------------------------------------------------
(* The background task: where a store call issued at a site goes next *)

\* the sites of _run_transcription_job that call update_job_status
StatusSites == {"get_recording", "path_exists", "status_done", "except"}

\* variant: the pre-flight branches without their return statements
ReturnPcFallsThrough(pc) ==
    CASE pc = "get_recording"  -> "path_exists"
      [] pc = "path_exists"    -> "mark_running"
      [] pc = "mark_running"   -> "probe"
      [] pc = "loading"        -> "load_model"
      [] pc = "progress_cb"    -> "segments"
      [] pc = "writing_output" -> "create_transcript"
      [] OTHER                 -> "finished"

\* where the task continues when the store call issued at pc returns
ReturnPc(pc) ==
    CASE pc = "mark_running"   -> "probe"
      [] pc = "loading"        -> "load_model"
      [] pc = "progress_cb"    -> "segments"
      [] pc = "writing_output" -> "create_transcript"
      [] OTHER                 -> "finished"

\* variant: _proxy_progress without its try/except, the exception leaving
\* transcribe_audio for the handler at line 97
RaisePcPropagates(pc) ==
    CASE pc \in {"loading", "writing_output", "status_done", "progress_cb"} -> "except"
      [] OTHER -> "crashed"

\* where the task continues when the store call issued at pc raises: inside
\* the try block the handler at line 97 runs, inside _proxy_progress the
\* exception is dropped, anywhere else it leaves _run_transcription_job
RaisePc(pc) ==
    CASE pc \in {"loading", "writing_output", "status_done"} -> "except"
      [] pc = "progress_cb" -> "segments"
      [] OTHER -> "crashed"

Returned(t) == [t EXCEPT !.phase = "run", !.pend = None, !.pc = ReturnPc(t.pc)]

\* whether an exception of the callback has been dropped in _proxy_progress
Dropped(t) == t.dropped \/ t.pc = "progress_cb"

\* the store call issued at t.pc raises msg: the session is closed with
\* nothing committed
Raised(t, msg) ==
    [t EXCEPT !.phase = "run", !.pend = None, !.pc = RaisePc(t.pc),
              !.exc = IF RaisePc(t.pc) = "segments" THEN @ ELSE Some(msg),
              !.dropped = Dropped(t)]

\* the UPDATE or the refresh of the store call issued at t.pc finds the row
\* deleted and raises
RaisedStale(t, msg) == [Raised(t, msg) EXCEPT !.db_raised = TRUE]

\* a store call starts: s.get finds no row and the call returns; or the row is
\* loaded and the assignments are made to it in the session, where one of
\* them raises or all of them are left to commit
Issued(t, tbl, job_id, o) ==
    IF GetJob(tbl, job_id) = None
    THEN [Returned(t) EXCEPT !.skipped = TRUE]
    ELSE IF o.exc # None
         THEN Raised(t, CHOOSE msg \in o.exc : TRUE)
         ELSE [t EXCEPT !.phase = "commit",
                        !.pend = Some([loaded |-> tbl[job_id], obj |-> o.obj])]

Running(j, pc) == task[j].pc = pc /\ task[j].phase = "run"

---------------------------------------------------------------------------
(* HTTP endpoints (orate/api/transcribe.py, orate/api/jobs.py) *)

\* the transcript id storage.new_id("tr") gives the run of job j
TrId(j) == <<"tr", j>>

\* variant: the endpoint without its lookup of the recording row
create_transcription_job_unchecked(r) ==
    IF r \notin RecIds
    THEN /\ last' = [NoCall EXCEPT !.op = "post_transcribe", !.rec = Some(r),
                                   !.result = "404"]
         /\ UNCHANGED <<jobs, allocated, transcripts, recs, task, clock, tx, mc, srt, lm, dt>>
    ELSE \E j \in JobIds \ allocated :
         /\ allocated' = allocated \cup {j}
         /\ jobs' = create_job(jobs, j)
         /\ task' = [task EXCEPT ![j] = [IdleTask EXCEPT !.pc = "get_recording",
                                                         !.rec = Some(r)]]
         /\ last' = [NoCall EXCEPT !.op = "post_transcribe", !.job = Some(j),
                                   !.rec = Some(r), !.result = "queued"]
         /\ UNCHANGED <<transcripts, recs, clock, tx, mc, srt, lm, dt>>

\* POST /api/transcribe: 404 when the recording has no row; else a fresh job
\* id, the queued row, and the background task scheduled
create_transcription_job(r) ==
    IF r \notin RecIds \/ ~recs[r].row
    THEN /\ last' = [NoCall EXCEPT !.op = "post_transcribe", !.rec = Some(r),
                                   !.result = "404"]
         /\ UNCHANGED <<jobs, allocated, transcripts, recs, task, clock, tx, mc, srt, lm, dt>>
    ELSE \E j \in JobIds \ allocated :
         /\ allocated' = allocated \cup {j}
         /\ jobs' = create_job(jobs, j)
         /\ task' = [task EXCEPT ![j] = [IdleTask EXCEPT !.pc = "get_recording",
                                                         !.rec = Some(r)]]
         /\ last' = [NoCall EXCEPT !.op = "post_transcribe", !.job = Some(j),
                                   !.rec = Some(r), !.result = "queued"]
         /\ UNCHANGED <<transcripts, recs, clock, tx, mc, srt, lm, dt>>

\* DELETE /api/jobs/{job_id}: line 27 calls crud.delete_job, a name that
\* orate/db/crud.py does not define; the attribute lookup raises
\* AttributeError before any session is opened, the framework answers 500,
\* and the row, if there is one, stays as it is. Lines 28-30 are never run
api_delete_job(j) ==
    /\ last' = [NoCall EXCEPT !.op = "delete_job", !.job = Some(j),
                              !.result = "500"]
    /\ UNCHANGED <<jobs, allocated, transcripts, recs, task, clock, tx, mc, srt, lm, dt>>

\* what audio.probe_duration gives for an upload, stored as duration_s: a
\* length in seconds, or 0.0 when the probe fails
UploadDurations == {0, 200}

\* POST /api/recordings: the upload is saved under a fresh id and its row
\* inserted with the probed duration
api_create_recording(r) ==
    /\ ~recs[r].row
    /\ \E d \in UploadDurations :
         recs' = [recs EXCEPT ![r] = [row |-> TRUE, duration_s |-> d,
                                      ingest |-> "none"]]
    /\ last' = [NoCall EXCEPT !.op = "post_recording", !.rec = Some(r),
                              !.result = "200"]
    /\ UNCHANGED <<jobs, allocated, transcripts, task, clock, tx, mc, srt, lm, dt>>

\* scripts/ingest_and_transcribe.py 24-45: a fresh recording id, the file
\* copied under it, the duration probed (0.0 when the probe fails) and the
\* recording row inserted
ingest_create_recording(r) ==
    /\ ~recs[r].row
    /\ \E d \in UploadDurations :
         recs' = [recs EXCEPT ![r] = [row |-> TRUE, duration_s |-> d,
                                      ingest |-> "transcribing"]]
    /\ UNCHANGED <<jobs, allocated, transcripts, task, clock, last, tx, mc, srt, lm, dt>>

\* scripts/ingest_and_transcribe.py 47-54: whisper.transcribe_audio is called
\* directly, with no job, and its result unpacked into two names. The call
\* raises, or it returns a TranscribeResult, whose six fields the unpacking
\* at line 49 cannot take (ValueError): either way the script ends there with
\* the recording row in place, and lines 57-85, the manifest and
\* crud.create_transcript, are never run
ingest_transcribe(r) ==
    /\ recs[r].ingest = "transcribing"
    /\ recs' = [recs EXCEPT ![r].ingest = "done"]
    /\ UNCHANGED <<jobs, allocated, transcripts, task, clock, last, tx, mc, srt, lm, dt>>

\* the attributes of the row GET /api/jobs/{job_id} reads besides the declared ones
ReadByGet == {"progress", "stage", "eta_seconds"}

\* GET /api/jobs/{job_id}: 404 without a row; else the response is built from
\* the row's attributes, and reading one that Job does not declare raises
\* AttributeError, which the framework answers with 500
api_get_job(j) ==
    /\ last' = IF GetJob(jobs, j) = None
               THEN [NoCall EXCEPT !.op = "get_job", !.job = Some(j), !.result = "404"]
               ELSE IF ReadByGet \subseteq DOMAIN jobs[j]
                    THEN [NoCall EXCEPT !.op = "get_job", !.job = Some(j),
                                        !.result = jobs[j].status]
                    ELSE [NoCall EXCEPT !.op = "get_job", !.job = Some(j),
                                        !.result = "500"]
    /\ UNCHANGED <<jobs, allocated, transcripts, recs, task, clock, tx, mc, srt, lm, dt>>

\* DELETE /api/transcripts/{transcript_id}, lines 144-157: crud.get_transcript
\* in a session of its own; 404 without a row, else the files are unlinked
\* and the request goes on to crud.delete_transcript
api_delete_transcript(c, tr) ==
    /\ dt[c].phase = "idle"
    /\ IF tr \in transcripts
       THEN /\ dt' = [dt EXCEPT ![c] = [phase |-> "found", tr |-> Some(tr)]]
            /\ last' = last
       ELSE /\ dt' = dt
            /\ last' = [NoCall EXCEPT !.op = "delete_transcript", !.result = "404"]
    /\ UNCHANGED <<jobs, allocated, transcripts, recs, task, clock, tx, mc, srt, lm>>

\* crud.delete_transcript 110-113 and the endpoint's lines 159-161: s.get in
\* a second session; without a row the call returns False and the answer is
\* 404
DT_get(c) ==
    /\ dt[c].phase = "found"
    /\ LET tr == CHOOSE tr \in dt[c].tr : TRUE
       IN IF delete_transcript_result(transcripts, tr)
          THEN /\ dt' = [dt EXCEPT ![c].phase = "loaded"]
               /\ last' = last
          ELSE /\ dt' = [dt EXCEPT ![c] = [phase |-> "idle", tr |-> None]]
               /\ last' = [NoCall EXCEPT !.op = "delete_transcript", !.result = "404"]
    /\ UNCHANGED <<jobs, allocated, transcripts, recs, task, clock, tx, mc, srt, lm>>

\* crud.delete_transcript 114-116 and the endpoint's line 163: s.delete(obj),
\* s.commit() on the row loaded, whether or not it is still there, and 204
DT_commit(c) ==
    /\ dt[c].phase = "loaded"
    /\ transcripts' = delete_transcript(transcripts, CHOOSE tr \in dt[c].tr : TRUE)
    /\ dt' = [dt EXCEPT ![c] = [phase |-> "idle", tr |-> None]]
    /\ last' = [NoCall EXCEPT !.op = "delete_transcript", !.result = "204"]
    /\ UNCHANGED <<jobs, allocated, recs, task, clock, tx, mc, srt, lm>>

---------------------------------------------------------------------------
(* The environment: the clock *)

Tick ==
    /\ clock < MaxTicks * TickStep
    /\ clock' = clock + TickStep
    /\ UNCHANGED <<jobs, allocated, transcripts, recs, task, last, tx, mc, srt, lm, dt>>

---------------------------------------------------------------------------
(* _run_transcription_job, step by step (orate/api/transcribe.py 18-98) *)

TheRec(j) == CHOOSE r \in task[j].rec : TRUE

TaskOnly(j, t) ==
    /\ task' = [task EXCEPT ![j] = t]
    /\ UNCHANGED <<jobs, allocated, transcripts, recs, clock, last, tx, mc, srt, lm, dt>>

\* lines 19-22
T_get_recording(j) ==
    /\ Running(j, "get_recording")
    /\ IF recs[TheRec(j)].row
       THEN TaskOnly(j, [task[j] EXCEPT !.pc = "path_exists"])
       ELSE TaskOnly(j, Issued([task[j] EXCEPT !.pre = Some("row_absent")], jobs, j,
                UpdateStatusRow(jobs[j], "error", None, Some("recording_not_found"))))

\* lines 24-27: Path.exists() answers for the file system as it is now
T_path_exists(j) ==
    /\ Running(j, "path_exists")
    /\ \E exists \in BOOLEAN :
         IF exists
         THEN TaskOnly(j, [task[j] EXCEPT !.pc = "mark_running"])
         ELSE TaskOnly(j, Issued([task[j] EXCEPT !.pre = Some("file_missing")], jobs, j,
                  UpdateStatusRow(jobs[j], "error", None, Some("original_missing"))))

\* line 29
T_mark_running(j) ==
    /\ Running(j, "mark_running")
    /\ TaskOnly(j, Issued(task[j], jobs, j, MarkRunningRow(jobs[j], clock)))

\* the results probe_duration can give for a file whose duration is not stored
ProbeResults == {0, 100}

\* lines 31-38: total from the row, else from the probe, else 0.0; t0
T_probe(j) ==
    /\ Running(j, "probe")
    /\ \E probed \in ProbeResults :
         LET stored == recs[TheRec(j)].duration_s
             total == IF stored <= 0 THEN probed ELSE stored
         IN TaskOnly(j, [task[j] EXCEPT !.pc = "loading", !.total = total,
                                        !.t0 = clock])

\* the sites of _run_transcription_job that call update_job_progress
ProgressSites == {"loading", "progress_cb", "writing_output"}

\* the arguments of the update_job_progress call made at the site t.pc: lines
\* 69 and 79, and in _progress_cb lines 41-49
ProgressArgs(t, now) ==
    CASE t.pc = "loading" ->
           [progress |-> LoadingProgress, stage |-> Some("loading_model"),
            eta_seconds |-> None]
      [] t.pc = "writing_output" ->
           [progress |-> WritingProgress, stage |-> Some("writing_output"),
            eta_seconds |-> Some(0)]
      [] OTHER ->
           LET elapsed == now - t.t0
               prog == IF t.total > 0 THEN DecodeProgress(t.decoded, t.total)
                       ELSE FallbackProgress(elapsed)
               eta == IF t.total > 0 THEN Some(DecodeEta(prog, elapsed)) ELSE None
           IN [progress |-> prog, stage |-> Some("decoding"), eta_seconds |-> eta]

\* the task calls crud.update_job_progress with the arguments a
Progressed(t, tbl, job_id, a) ==
    Issued([t EXCEPT !.sent = Some(a)], tbl, job_id,
           UpdateProgressRow(tbl[job_id], a.progress, a.stage, a.eta_seconds))

\* lines 52-69
T_loading(j) ==
    /\ Running(j, "loading")
    /\ TaskOnly(j, Progressed(task[j], jobs, j, ProgressArgs(task[j], clock)))

\* whisper.transcribe_audio 164-168: load_model returns
T_load_model(j) ==
    /\ Running(j, "load_model")
    /\ TaskOnly(j, [task[j] EXCEPT !.pc = "transcribe", !.engine = TRUE])

\* whisper.transcribe_audio 195: model.transcribe returns the lazy segments
T_transcribe(j) ==
    /\ Running(j, "transcribe")
    /\ TaskOnly(j, [task[j] EXCEPT !.pc = "segments"])

\* end times a segment can have, seconds
SegEnds == {1, 50, 100, 250}

\* whisper.transcribe_audio 214-215: the next segment arrives
T_next_segment(j) ==
    /\ Running(j, "segments")
    /\ task[j].nseg < MaxSegments
    /\ \E e \in SegEnds :
         /\ e > task[j].decoded
         /\ TaskOnly(j, [task[j] EXCEPT !.pc = "progress_cb", !.decoded = e,
                                        !.nseg = @ + 1])

\* _proxy_progress and _progress_cb: transcribe.py 40-49, whisper.py 188-193
T_progress_cb(j) ==
    /\ Running(j, "progress_cb")
    /\ TaskOnly(j, Progressed(task[j], jobs, j, ProgressArgs(task[j], clock)))

\* whisper.transcribe_audio 214, 227-247: the segments end, the files are
\* written, the result is returned
T_write_output(j) ==
    /\ Running(j, "segments")
    /\ TaskOnly(j, [task[j] EXCEPT !.pc = "writing_output"])

\* an exception out of whisper.transcribe_audio (model load, inference, file
\* write), caught at line 97
T_transcribe_raises(j) ==
    /\ task[j].phase = "run"
    /\ task[j].pc \in {"load_model", "transcribe", "segments"}
    /\ TaskOnly(j, [task[j] EXCEPT !.pc = "except", !.engine = TRUE,
                                   !.exc = Some("transcribe_failed")])

\* line 79
T_writing_output(j) ==
    /\ Running(j, "writing_output")
    /\ TaskOnly(j, Progressed(task[j], jobs, j, ProgressArgs(task[j], clock)))

\* lines 81-93
T_create_transcript(j) ==
    /\ Running(j, "create_transcript")
    /\ transcripts' = transcripts \cup {TrId(j)}
    /\ task' = [task EXCEPT ![j].pc = "status_done"]
    /\ UNCHANGED <<jobs, allocated, recs, clock, last, tx, mc, srt, lm, dt>>

\* lines 81-93 raise (the insert fails), caught at line 97
T_create_transcript_raises(j) ==
    /\ Running(j, "create_transcript")
    /\ TaskOnly(j, [task[j] EXCEPT !.pc = "except", !.exc = Some("insert_failed")])

\* line 95
T_status_done(j) ==
    /\ Running(j, "status_done")
    /\ TaskOnly(j, Issued(task[j], jobs, j,
            UpdateStatusRow(jobs[j], "done", Some(TrId(j)), None)))

\* lines 97-98
T_except(j) ==
    /\ Running(j, "except")
    /\ TaskOnly(j, Issued(task[j], jobs, j,
            UpdateStatusRow(jobs[j], "error", None, task[j].exc)))

\* the sites of _run_transcription_job that start with a call of the store
StoreSites ==
    {"get_recording", "path_exists", "mark_running", "loading", "progress_cb",
     "writing_output", "status_done", "except"}

\* the phases of a store call in which the database can fail: at s.get, at
\* s.commit(), at s.refresh(job)
StorePhases == {"run", "commit", "refresh"}

\* a database call of the store call made at a site raises (the database is
\* locked or unreachable): at s.get, before anything is done (at line 26 the
\* call is made when the file is missing); at s.commit(), which then writes
\* nothing; or at the s.refresh(job) of update_job_status, after the commit
\* has written. The exception is handled as RaisePc says for that site
T_store_raises(j) ==
    /\ task[j].pc \in StoreSites
    /\ task[j].phase \in StorePhases
    /\ TaskOnly(j, Raised(IF task[j].phase = "run"
                          THEN [task[j] EXCEPT
                                  !.pre = IF task[j].pc = "path_exists"
                                          THEN Some("file_missing") ELSE @,
                                  !.sent = IF task[j].pc \in ProgressSites
                                           THEN Some(ProgressArgs(task[j], clock))
                                           ELSE @]
                          ELSE task[j],
                          "db_error"))

\* s.commit() of the store call in flight: the UPDATE; when it matches no row
\* the session raises StaleDataError
DbCommit(j) ==
    /\ task[j].phase = "commit"
    /\ LET p == CHOOSE p \in task[j].pend : TRUE
       IN jobs' = CommitWrite(jobs, j, p.loaded, p.obj)
    /\ task' = [task EXCEPT ![j] =
                  IF j \notin DOMAIN jobs THEN RaisedStale(@, "stale_data")
                  ELSE IF @.pc \in StatusSites
                       THEN [@ EXCEPT !.phase = "refresh", !.pend = None]
                       ELSE Returned(@)]
    /\ UNCHANGED <<allocated, transcripts, recs, clock, last, tx, mc, srt, lm, dt>>

\* s.refresh(job) of update_job_status: raises when the row is gone
DbRefresh(j) ==
    /\ task[j].phase = "refresh"
    /\ TaskOnly(j, IF j \in DOMAIN jobs THEN Returned(task[j])
                   ELSE RaisedStale(task[j], "refresh_failed"))

\* the steps of lines 19-29. create_transcription_job inserts the row before
\* it schedules the task and no code removes a job row, so line 29 finds the
\* row, its assignment to stage raises, and the exception leaves the task
\* there, outside the try block: these are all the steps a task of the
\* application takes (NoRunPastLine29)
TaskStart(j) ==
    \/ T_get_recording(j)
    \/ T_path_exists(j)
    \/ T_mark_running(j)
    \/ T_store_raises(j)
    \/ DbCommit(j)
    \/ DbRefresh(j)

\* every step of _run_transcription_job, lines 19-98
TaskStep(j) ==
    \/ T_get_recording(j)
    \/ T_path_exists(j)
    \/ T_mark_running(j)
    \/ T_probe(j)
    \/ T_loading(j)
    \/ T_load_model(j)
    \/ T_transcribe(j)
    \/ T_next_segment(j)
    \/ T_progress_cb(j)
    \/ T_write_output(j)
    \/ T_transcribe_raises(j)
    \/ T_writing_output(j)
    \/ T_create_transcript(j)
    \/ T_create_transcript_raises(j)
    \/ T_status_done(j)
    \/ T_except(j)
    \/ T_store_raises(j)
    \/ DbCommit(j)
    \/ DbRefresh(j)

\* the application: the requests, the ingest script, the clock and the steps
\* of lines 19-29 of the background task. No transcript row is ever inserted
\* (NoTranscriptRows), so DELETE /api/transcripts ends at its lookup
Next ==
    \/ \E r \in RecIds \cup {"rec_unknown"} : create_transcription_job(r)
    \/ \E r \in RecIds : api_create_recording(r)
    \/ \E r \in RecIds : ingest_create_recording(r)
    \/ \E r \in RecIds : ingest_transcribe(r)
    \/ \E j \in JobIds : api_get_job(j)
    \/ \E j \in JobIds : api_delete_job(j)
    \/ \E c \in DtRequests, j \in JobIds : api_delete_transcript(c, TrId(j))
    \/ Tick
    \/ \E j \in JobIds : TaskStart(j)

Spec == Init /\ [][Next]_vars

\* the background-task runner runs a scheduled task to its end: each call
\* the task makes returns or raises, and the task takes its next step
SpecLive == Spec /\ \A j \in JobIds : WF_vars(TaskStart(j))

\* the application with every step of the task and of the transcript deletion
\* enabled wherever its guard holds
NextAll ==
    \/ Next
    \/ \E j \in JobIds : TaskStep(j)
    \/ \E c \in DtRequests : DT_get(c)
    \/ \E c \in DtRequests : DT_commit(c)

SpecAll == Init /\ [][NextAll]_vars

\* under SpecAll no task is ever past line 29: it is idle, in lines 19-29,
\* returned from a pre-flight failure, or ended by the exception of line 29
\* (or of a failing database call of lines 19-29); so Next leaves out no
\* step that a task of the application takes
NoRunPastLine29 ==
    \A j \in JobIds :
        task[j].pc \in {"idle", "get_recording", "path_exists", "mark_running",
                        "finished", "crashed"}

\* under SpecAll the transcript table stays empty and no DELETE
\* /api/transcripts request gets past its lookup: crud.create_transcript is
\* called at transcribe.py 82, which no task reaches, and at line 74 of the
\* ingest script, which ends at its line 49
NoTranscriptRows == transcripts = {} /\ dt = IdleDt

---------------------------------------------------------------------------
(* DELETE /api/transcripts/{id} on a table that holds the row, as two       *)
(* requests for the same id can interleave. The application inserts no      *)
(* transcript row (NoTranscriptRows); the row here is one put in the table  *)
(* from outside                                                             *)

InitDT ==
    /\ jobs = NoJobs
    /\ allocated = {}
    /\ transcripts = {TrId(j) : j \in JobIds}
    /\ recs = NoRecs
    /\ task = [j \in JobIds |-> IdleTask]
    /\ clock = 0
    /\ last = NoCall
    /\ tx = IdleTx
    /\ mc = IdleMc
    /\ srt = IdleSrt
    /\ lm = IdleLm
    /\ dt = IdleDt

SpecDT ==
    InitDT /\ [][\/ \E c \in DtRequests, j \in JobIds : api_delete_transcript(c, TrId(j))
                 \/ \E c \in DtRequests : DT_get(c)
                 \/ \E c \in DtRequests : DT_commit(c)]_vars

---------------------------------------------------------------------------
(* _run_transcription_job called on its own with a job id that has no row,  *)
(* the one input on which it gets past line 29: every store call returns at *)
(* 'if not job' and lines 31-98 are run. No request of the application      *)
(* makes this call (NoRunPastLine29)                                        *)

InitRun ==
    /\ jobs = NoJobs
    /\ allocated = JobIds
    /\ transcripts = {}
    /\ \E r \in RecIds, d \in UploadDurations :
         /\ recs = [NoRecs EXCEPT ![r] = [row |-> TRUE, duration_s |-> d,
                                          ingest |-> "none"]]
         /\ task = [j \in JobIds |-> [IdleTask EXCEPT !.pc = "get_recording",
                                                      !.rec = Some(r)]]
    /\ clock = 0
    /\ last = NoCall
    /\ tx = IdleTx
    /\ mc = IdleMc
    /\ srt = IdleSrt
    /\ lm = IdleLm
    /\ dt = IdleDt

SpecRun == InitRun /\ [][Tick \/ \E j \in JobIds : TaskStep(j)]_vars

---------------------------------------------------------------------------
(* _progress_cb (transcribe.py 40-49) called by _proxy_progress (whisper.py *)
(* 188-193) on its own: the closure holds job_id, total_duration and        *)
(* start_time, the job has its row, and line 69 has made its call. Each     *)
(* segment the decoder yields calls the callback once with the segment's    *)
(* end time; the update_job_progress call it makes raises on the assignment *)
(* to progress and _proxy_progress drops the exception                      *)

\* the total_duration the closure can hold: the stored duration, or what the
\* probe gave, or 0.0
CbTotals == UploadDurations \cup ProbeResults

\* the status of the row while the callback runs: queued as create_job left
\* it, or running as a caller of update_job_status can have set it
CbStatuses == {"queued", "running"}

InitCB ==
    /\ \E st \in CbStatuses :
         jobs = [j \in JobIds |-> [NewJobRow EXCEPT !.status = st]]
    /\ allocated = JobIds
    /\ transcripts = {}
    /\ recs = NoRecs
    /\ \E total \in CbTotals :
         task = [j \in JobIds |->
                   [IdleTask EXCEPT
                      !.pc = "segments", !.total = total, !.t0 = 0,
                      !.engine = TRUE,
                      !.sent = Some(ProgressArgs([IdleTask EXCEPT !.pc = "loading"], 0))]]
    /\ clock = 0
    /\ last = NoCall
    /\ tx = IdleTx
    /\ mc = IdleMc
    /\ srt = IdleSrt
    /\ lm = IdleLm
    /\ dt = IdleDt

NextCB ==
    \/ Tick
    \/ \E j \in JobIds : T_next_segment(j)
    \/ \E j \in JobIds : T_progress_cb(j)

SpecCB == InitCB /\ [][NextCB]_vars

---------------------------------------------------------------------------
(* The job store called directly by two callers, in any order and           *)
(* interleaving: each function is a Session.get with the assignments, then  *)
(* a commit, then (update_job_status) a refresh                             *)

ProgressInputs == {-200, 0, 10, 500, 990, 1000, 1500}

StageInputs == {None, Some("decoding"), Some("writing_output")}

EtaInputs == {None, Some(0), Some(10000)}

ErrorInputs == {"recording_not_found", "transcribe_failed"}

StoreOnly == UNCHANGED <<allocated, transcripts, recs, task, clock, tx, mc, srt, dt>>

LM_create_job ==
    \E j \in JobIds \ allocated :
        /\ allocated' = allocated \cup {j}
        /\ jobs' = create_job(jobs, j)
        /\ last' = [NoCall EXCEPT !.op = "create_job", !.job = Some(j),
                                  !.result = "returned"]
        /\ UNCHANGED <<transcripts, recs, task, clock, tx, mc, srt, lm, dt>>

\* caller c starts a store call on job j: s.get finds no row and the call
\* returns, or an assignment to the loaded row raises and the call ends with
\* nothing written, or the changed row is left to commit
LM_issue(c, j, call, o) ==
    /\ lm[c].phase = "idle"
    /\ jobs' = jobs
    /\ IF GetJob(jobs, j) = None
       THEN /\ lm' = lm
            /\ last' = [call EXCEPT !.job = Some(j), !.result = "returned"]
       ELSE IF o.exc # None
            THEN /\ lm' = lm
                 /\ last' = [call EXCEPT !.job = Some(j), !.result = "raised"]
            ELSE /\ lm' = [lm EXCEPT ![c] =
                            [phase |-> "commit", op |-> call.op,
                             pend |-> Some([job |-> j, loaded |-> jobs[j],
                                            obj |-> o.obj])]]
                 /\ last' = [call EXCEPT !.job = Some(j), !.result = "loaded"]
    /\ StoreOnly

LM_mark_job_running(c, j) ==
    LM_issue(c, j, [NoCall EXCEPT !.op = "mark_job_running"],
             MarkRunningRow(jobs[j], clock))

LM_update_job_progress(c, j) ==
    \E p \in ProgressInputs, st \in StageInputs, eta \in EtaInputs :
        LM_issue(c, j, [NoCall EXCEPT !.op = "update_job_progress",
                                      !.progress = p, !.stage = st,
                                      !.eta_seconds = eta],
                 UpdateProgressRow(jobs[j], p, st, eta))

\* complete(job_id, result_ref)
LM_complete(c, j) ==
    LM_issue(c, j, [NoCall EXCEPT !.op = "complete"],
             UpdateStatusRow(jobs[j], "done", Some(TrId(j)), None))

\* fail(job_id, error_message)
LM_fail(c, j) ==
    \E msg \in ErrorInputs :
        LM_issue(c, j, [NoCall EXCEPT !.op = "fail"],
                 UpdateStatusRow(jobs[j], "error", None, Some(msg)))

\* s.commit() of caller c's call: the UPDATE of the changed columns; it
\* raises when the row is gone
LM_commit(c) ==
    /\ lm[c].phase = "commit"
    /\ LET p == CHOOSE p \in lm[c].pend : TRUE
       IN /\ jobs' = CommitWrite(jobs, p.job, p.loaded, p.obj)
          /\ IF p.job \notin DOMAIN jobs
             THEN /\ lm' = [lm EXCEPT ![c] = IdleCall]
                  /\ last' = [NoCall EXCEPT !.op = lm[c].op, !.job = Some(p.job),
                                            !.result = "stale_data"]
             ELSE IF lm[c].op \in {"complete", "fail"}
                  THEN /\ lm' = [lm EXCEPT ![c].phase = "refresh"]
                       /\ last' = [NoCall EXCEPT !.op = lm[c].op, !.job = Some(p.job),
                                                 !.result = "committed"]
                  ELSE /\ lm' = [lm EXCEPT ![c] = IdleCall]
                       /\ last' = [NoCall EXCEPT !.op = lm[c].op, !.job = Some(p.job),
                                                 !.result = "returned"]
    /\ StoreOnly

\* s.refresh(job) of update_job_status: raises when the row is gone
LM_refresh(c) ==
    /\ lm[c].phase = "refresh"
    /\ LET p == CHOOSE p \in lm[c].pend : TRUE
       IN last' = [NoCall EXCEPT !.op = lm[c].op, !.job = Some(p.job),
                                 !.result = IF p.job \in DOMAIN jobs
                                            THEN "returned" ELSE "refresh_failed"]
    /\ lm' = [lm EXCEPT ![c] = IdleCall]
    /\ jobs' = jobs
    /\ StoreOnly

NextLM ==
    \/ LM_create_job
    \/ \E c \in LMCallers, j \in JobIds : LM_mark_job_running(c, j)
    \/ \E c \in LMCallers, j \in JobIds : LM_update_job_progress(c, j)
    \/ \E c \in LMCallers, j \in JobIds : LM_complete(c, j)
    \/ \E c \in LMCallers, j \in JobIds : LM_fail(c, j)
    \/ \E c \in LMCallers : LM_commit(c)
    \/ \E c \in LMCallers : LM_refresh(c)

SpecLM == Init /\ [][NextLM]_vars

---------------------------------------------------------------------------
(* Speaker labels and alignment (orate/services/whisper.py 116-154) *)

\* the display label f"Speaker {k}"
Speaker(k) == <<"Speaker", k>>

\* position of label lab in the sequence seen of labels met so far, 0 if new
RECURSIVE SeenAt(_, _, _)
SeenAt(seen, lab, k) ==
    IF k > Len(seen) THEN 0
    ELSE IF seen[k] = lab THEN k
    ELSE SeenAt(seen, lab, k + 1)

\* variant: next_id advanced for every entry, new label or not
RECURSIVE NormalizeByPosition(_, _, _)
NormalizeByPosition(entries, i, seen) ==
    IF i > Len(entries) THEN << >>
    ELSE <<[start |-> entries[i].start, end |-> entries[i].end,
            label |-> Speaker(i)]>>
         \o NormalizeByPosition(entries, i + 1, seen)

\* lines 120-127: the loop over entries from entry i on; seen holds the raw
\* labels in uniq in the order they were added, so next_id is Len(seen) + 1
RECURSIVE NormalizeFrom(_, _, _)
NormalizeFrom(entries, i, seen) ==
    IF i > Len(entries) THEN << >>
    ELSE LET lab == entries[i].label
             known == SeenAt(seen, lab, 1)
             seen2 == IF known = 0 THEN Append(seen, lab) ELSE seen
             id == IF known = 0 THEN Len(seen) + 1 ELSE known
         IN <<[start |-> entries[i].start, end |-> entries[i].end,
               label |-> Speaker(id)]>>
            \o NormalizeFrom(entries, i + 1, seen2)

NormalizeLabels(entries) == NormalizeFrom(entries, 1, << >>)

\* variant: _try_diarize without its except clauses
TryDiarizeUncaught(outcome, raw) ==
    IF outcome = "ok"
    THEN [raised |-> FALSE, value |-> Some(NormalizeLabels(raw))]
    ELSE [raised |-> TRUE, value |-> None]

\* _try_diarize: the normalized speaker segments, or None when the import,
\* the pipeline load or the run raises
TryDiarize(outcome, raw) ==
    IF outcome = "ok"
    THEN [raised |-> FALSE, value |-> Some(NormalizeLabels(raw))]
    ELSE [raised |-> FALSE, value |-> None]

\* overlap(a0, a1, b0, b1), lines 138-141
Overlap(a0, a1, b0, b1) == Max(0, Min(a1, b1) - Max(a0, b0))

\* variant: a later speaker segment wins a tie
BetterOrTie(ov, best_ov) == ov >= best_ov /\ ov > 0

\* variant: the comparison is not strict
BetterOrEqual(ov, best_ov) == ov >= best_ov

\* line 149: if ov > best_ov
Better(ov, best_ov) == ov > best_ov

\* lines 145-151: the inner loop from speaker segment k on; the result is
\* best_spk, None or the label
RECURSIVE BestSpeaker(_, _, _, _, _)
BestSpeaker(seg, dsegs, k, best_ov, best_spk) ==
    IF k > Len(dsegs) THEN best_spk
    ELSE LET ov == Overlap(seg.start, seg.end, dsegs[k].start, dsegs[k].end)
         IN IF Better(ov, best_ov)
            THEN BestSpeaker(seg, dsegs, k + 1, ov, Some(dsegs[k].label))
            ELSE BestSpeaker(seg, dsegs, k + 1, best_ov, best_spk)

\* _assign_speakers_to_segments: index (from 0) -> label, for the segments
\* whose best_spk is set
AssignSpeakers(wsegs, dsegs) ==
    LET best(i) == BestSpeaker(wsegs[i + 1], dsegs, 1, 0, None)
    IN [i \in {n \in 0 .. Len(wsegs) - 1 : best(n) # None}
          |-> CHOOSE lab \in best(i) : TRUE]

---------------------------------------------------------------------------
(* whisper.transcribe_audio, one call, step by step (whisper.py 157-247) *)

\* speaker segments one diarization run yields at most
MaxSpeakerSegments == 2

TimePoints == {0, 4, 5, 10}

Intervals == {iv \in TimePoints \X TimePoints : iv[1] < iv[2]}

RawLabels == {"SPEAKER_00", "SPEAKER_01"}

\* what the engine can yield: segments in order, none overlapping the next
SegmentLists ==
    LET seqs == UNION {[1 .. n -> Intervals] : n \in 0 .. MaxSegments}
        ordered(q) == \A i \in 1 .. Len(q) - 1 : q[i][2] <= q[i + 1][1]
    IN {[i \in 1 .. Len(q) |-> [start |-> q[i][1], end |-> q[i][2],
                                text |-> <<"text", q[i][1], q[i][2]>>]]
          : q \in {x \in seqs : ordered(x)}}

\* what the diarization pipeline can yield: any speaker segments
RawLists ==
    LET seqs == UNION {[1 .. n -> Intervals \X RawLabels]
                         : n \in 0 .. MaxSpeakerSegments}
    IN {[i \in 1 .. Len(q) |-> [start |-> q[i][1][1], end |-> q[i][1][2],
                                label |-> q[i][2]]] : q \in seqs}

DiarizeOutcomes == {"import_error", "load_error", "run_error", "ok"}

NewTx(segs, diarize, outcome, raw) ==
    [pc |-> "start", segs |-> segs, gen |-> 0, diarize |-> diarize,
     outcome |-> outcome, raw |-> raw, diar |-> None, diar_calls |-> 0,
     speaker_by_index |-> << >>, txt_lines |-> << >>, cb |-> << >>]

InitTA ==
    /\ jobs = NoJobs
    /\ allocated = {}
    /\ transcripts = {}
    /\ recs = NoRecs
    /\ task = [j \in JobIds |-> IdleTask]
    /\ clock = 0
    /\ last = NoCall
    /\ \E segs \in SegmentLists, diarize \in BOOLEAN,
          outcome \in DiarizeOutcomes, raw \in RawLists :
          /\ (outcome # "ok" \/ ~diarize) => raw = << >>
          /\ ~diarize => outcome = "ok"
          /\ tx = NewTx(segs, diarize, outcome, raw)
    /\ mc = IdleMc
    /\ srt = IdleSrt
    /\ lm = IdleLm
    /\ dt = IdleDt

TxOnly ==
    UNCHANGED <<jobs, allocated, transcripts, recs, task, clock, last, mc, srt, lm, dt>>

\* the segments the lazy sequence has not yielded yet
Remaining(t) == SubSeq(t.segs, t.gen + 1, Len(t.segs))

\* lines 164-195: the model is loaded and model.transcribe returns the lazy
\* sequence, nothing consumed
TA_transcribe ==
    /\ tx.pc = "start"
    /\ tx' = [tx EXCEPT !.pc = "diarize", !.gen = 0]
    /\ TxOnly

\* line 198: diar_segments = _try_diarize(audio_path) if o.diarize else None
TA_diarize ==
    /\ tx.pc = "diarize"
    /\ IF tx.diarize
       THEN LET res == TryDiarize(tx.outcome, tx.raw)
            IN tx' = [tx EXCEPT !.pc = IF res.raised THEN "raised" ELSE "assign",
                                !.diar = res.value, !.diar_calls = @ + 1]
       ELSE tx' = [tx EXCEPT !.pc = "assign"]
    /\ TxOnly

\* the value of diar_segments as a sequence, empty for None
DiarSegments(t) == IF t.diar = None THEN << >> ELSE CHOOSE d \in t.diar : TRUE

\* lines 199-201: if diar_segments, the aligner enumerates the lazy sequence
TA_assign ==
    /\ tx.pc = "assign"
    /\ IF DiarSegments(tx) # << >>
       THEN tx' = [tx EXCEPT !.pc = "loop",
                             !.speaker_by_index =
                                 AssignSpeakers(Remaining(tx), DiarSegments(tx)),
                             !.gen = Len(tx.segs)]
       ELSE tx' = [tx EXCEPT !.pc = "loop"]
    /\ TxOnly

\* lines 214-218: the loop takes the next segment the sequence yields, calls
\* the progress proxy with its end, appends its line
TA_segment ==
    /\ tx.pc = "loop"
    /\ tx.gen < Len(tx.segs)
    /\ LET seg == tx.segs[tx.gen + 1]
           i == Len(tx.txt_lines)
           spk == IF i \in DOMAIN tx.speaker_by_index
                  THEN Some(tx.speaker_by_index[i]) ELSE None
       IN tx' = [tx EXCEPT !.gen = @ + 1,
                           !.cb = Append(@, seg.end),
                           !.txt_lines = Append(@, [speaker |-> spk,
                                                    text |-> seg.text])]
    /\ TxOnly

\* lines 227-247: the sequence is exhausted; the text is joined, written and
\* returned
TA_return ==
    /\ tx.pc = "loop"
    /\ tx.gen = Len(tx.segs)
    /\ tx' = [tx EXCEPT !.pc = "returned"]
    /\ TxOnly

NextTA ==
    \/ TA_transcribe
    \/ TA_diarize
    \/ TA_assign
    \/ TA_segment
    \/ TA_return

SpecTA == InitTA /\ [][NextTA]_vars

---------------------------------------------------------------------------
(* TranscribeOpts.resolved and load_model (orate/services/whisper.py 41-98) *)

\* str.lower() on the device names the model uses
Lower(s) == CASE s = "CUDA" -> "cuda" [] s = "CPU" -> "cpu" [] OTHER -> s

\* x or default, for an Optional[str]: None and "" are falsy
OrElse(x, default) ==
    IF x = None \/ x = Some("") THEN default ELSE CHOOSE v \in x : TRUE

\* bool(x) for an Optional[bool]
Bool(x) == x = Some(TRUE)

\* variant: the compute default not depending on the device
ResolvedInt8(opts) ==
    [opts EXCEPT !.model = Some(OrElse(opts.model, "small")),
                 !.device = Some(Lower(OrElse(opts.device, "cpu"))),
                 !.compute = Some(OrElse(opts.compute, "int8")),
                 !.srt = Some(Bool(opts.srt))]

\* TranscribeOpts.resolved, lines 41-59
Resolved(opts) ==
    LET dev == Lower(OrElse(opts.device, "cpu"))
        comp == OrElse(opts.compute, IF dev = "cuda" THEN "float16" ELSE "int8")
    IN [opts EXCEPT !.model = Some(OrElse(opts.model, "small")),
                    !.device = Some(dev),
                    !.compute = Some(comp),
                    !.srt = Some(Bool(opts.srt))]

\* the options that resolved() passes on as they are
CarriedOptions ==
    {"language", "vad", "beam_size", "best_of", "temperature", "prompt",
     "condition_on_previous_text", "word_timestamps", "diarize"}

\* two settings of the carried options and the subtitle toggle: all unset,
\* all set
RestInputs ==
    {[language |-> None, srt |-> None, vad |-> None, beam_size |-> None,
      best_of |-> None, temperature |-> None, prompt |-> None,
      condition_on_previous_text |-> None, word_timestamps |-> None,
      diarize |-> None],
     [language |-> Some("en"), srt |-> Some(TRUE), vad |-> Some(TRUE),
      beam_size |-> Some(5), best_of |-> Some(5), temperature |-> Some(0),
      prompt |-> Some("names"), condition_on_previous_text |-> Some(FALSE),
      word_timestamps |-> Some(TRUE), diarize |-> Some(TRUE)]}

ModelInputs == {None, Some("base")}

DeviceInputs == {None, Some(""), Some("cuda")}

ComputeInputs == {None, Some("int8")}

\* the TranscribeOpts objects a caller can pass
OptsInputs ==
    {[model |-> m, device |-> d, compute |-> c, language |-> r.language,
      srt |-> r.srt, vad |-> r.vad, beam_size |-> r.beam_size,
      best_of |-> r.best_of, temperature |-> r.temperature, prompt |-> r.prompt,
      condition_on_previous_text |-> r.condition_on_previous_text,
      word_timestamps |-> r.word_timestamps, diarize |-> r.diarize]
       : m \in ModelInputs, d \in DeviceInputs, c \in ComputeInputs,
         r \in RestInputs}

\* the job executions (threads of the background-task pool) calling load_model
Callers == {"t1", "t2"}

\* load_model calls made in one behaviour at most
MaxLoads == 3

NoCaller == [pc |-> "idle", opts |-> None, o |-> None, key |-> None, m |-> None]

\* _model_cache = {}: cache maps a key to an engine instance; an instance is
\* its position in built, the keys of the instances constructed so far
InitMC ==
    /\ jobs = NoJobs
    /\ allocated = {}
    /\ transcripts = {}
    /\ recs = NoRecs
    /\ task = [j \in JobIds |-> IdleTask]
    /\ clock = 0
    /\ last = NoCall
    /\ tx = IdleTx
    /\ srt = IdleSrt
    /\ lm = IdleLm
    /\ dt = IdleDt
    /\ mc = [pc |-> "ready", cache |-> << >>, built |-> << >>, loads |-> 0,
             call |-> [c \in Callers |-> NoCaller]]

McOnly ==
    UNCHANGED <<jobs, allocated, transcripts, recs, task, clock, last, tx, srt, lm, dt>>

\* a job execution calls load_model(opts)
MC_call(c) ==
    /\ mc.call[c].pc = "idle"
    /\ mc.loads < MaxLoads
    /\ \E opts \in OptsInputs :
         mc' = [mc EXCEPT !.loads = @ + 1,
                          !.call[c] = [NoCaller EXCEPT !.pc = "resolve",
                                                       !.opts = Some(opts)]]
    /\ McOnly

\* lines 87-88: o = opts.resolved(); key = (o.model, o.device, o.compute)
MC_resolve(c) ==
    /\ mc.call[c].pc = "resolve"
    /\ LET o == Resolved(CHOOSE opts \in mc.call[c].opts : TRUE)
       IN mc' = [mc EXCEPT !.call[c].pc = "get",
                           !.call[c].o = Some(o),
                           !.call[c].key = Some(<<o.model, o.device, o.compute>>)]
    /\ McOnly

KeyOf(c) == CHOOSE k \in mc.call[c].key : TRUE

\* variant: a lookup that never finds the key
CacheGetMisses(cache, key) == None

\* _model_cache.get(key)
CacheGet(cache, key) == IF key \in DOMAIN cache THEN Some(cache[key]) ELSE None

\* lines 89-91: m = _model_cache.get(key); if m is not None: return m
MC_get(c) ==
    /\ mc.call[c].pc = "get"
    /\ LET m == CacheGet(mc.cache, KeyOf(c))
       IN mc' = [mc EXCEPT !.call[c].pc = IF m # None THEN "returned"
                                          ELSE "construct",
                           !.call[c].opts = None,
                           !.call[c].o = None,
                           !.call[c].m = m]
    /\ McOnly

\* lines 92-96: m = WhisperModel(...), a new instance
MC_construct(c) ==
    /\ mc.call[c].pc = "construct"
    /\ mc' = [mc EXCEPT !.built = Append(@, KeyOf(c)),
                        !.call[c].pc = "store",
                        !.call[c].m = Some(Len(mc.built) + 1)]
    /\ McOnly

\* lines 97-98: _model_cache[key] = m; return m
MC_store(c) ==
    /\ mc.call[c].pc = "store"
    /\ LET key == KeyOf(c)
           m == CHOOSE i \in mc.call[c].m : TRUE
       IN mc' = [mc EXCEPT !.cache = [k \in DOMAIN mc.cache \cup {key} |->
                                         IF k = key THEN m ELSE mc.cache[k]],
                           !.call[c].pc = "returned"]
    /\ McOnly

\* the caller goes on with the instance it was given
MC_done(c) ==
    /\ mc.call[c].pc = "returned"
    /\ mc' = [mc EXCEPT !.call[c] = NoCaller]
    /\ McOnly

NextMC ==
    \E c \in Callers :
        \/ MC_call(c)
        \/ MC_resolve(c)
        \/ MC_get(c)
        \/ MC_construct(c)
        \/ MC_store(c)
        \/ MC_done(c)

SpecMC == InitMC /\ [][NextMC]_vars

---------------------------------------------------------------------------
(* Subtitle output of transcribe_audio (orate/services/whisper.py 203-232) *)

\* Times are floats in the source. A time is written here as the whole
\* number t of milliseconds whose quotient t/1000 the float is nearest to.

\* the segment boundaries the engine reports
Stamps == {0, 1001, 4000, 4350, 3661250}

\* the stamps whose float lies below t/1000, so that (ts - int(ts)) * 1000
\* evaluates below the whole number: 1.001 gives 0.99999999999989,
\* 4.35 gives 349.99999999999966
FloatBelow == {1001, 4350}

\* int((ts - int(ts)) * 1000), line 211
TruncatedMillis(t) == IF t \in FloatBelow THEN (t % 1000) - 1 ELSE t % 1000

\* the decimal digits of n, most significant first
RECURSIVE DigitsOf(_)
DigitsOf(n) == IF n < 10 THEN <<n>> ELSE Append(DigitsOf(n \div 10), n % 10)

\* f"{n:0{width}d}": the digits of n, zero-padded on the left to width
RECURSIVE Padded(_, _)
Padded(ds, width) == IF Len(ds) >= width THEN ds ELSE Padded(<<0>> \o ds, width)

\* fmt(ts), lines 207-212: the fields of "HH:MM:SS,mmm" as digit strings
Fmt(t) ==
    LET whole == t \div 1000
        h == whole \div 3600
        m == (whole % 3600) \div 60
        s == whole % 60
        ms == TruncatedMillis(t)
    IN [h |-> Padded(DigitsOf(h), 2), m |-> Padded(DigitsOf(m), 2),
        s |-> Padded(DigitsOf(s), 2), ms |-> Padded(DigitsOf(ms), 3)]

\* the segment lists of a call: boundaries in order, texts distinct
StampedLists ==
    LET ivs == {iv \in Stamps \X Stamps : iv[1] < iv[2]}
        seqs == UNION {[1 .. n -> ivs] : n \in 0 .. MaxSegments}
        ordered(q) == \A i \in 1 .. Len(q) - 1 : q[i][2] <= q[i + 1][1]
    IN {[i \in 1 .. Len(q) |-> [start |-> q[i][1], end |-> q[i][2],
                                text |-> <<"text", i>>]]
          : q \in {x \in seqs : ordered(x)}}

InitSRT ==
    /\ jobs = NoJobs
    /\ allocated = {}
    /\ transcripts = {}
    /\ recs = NoRecs
    /\ task = [j \in JobIds |-> IdleTask]
    /\ clock = 0
    /\ last = NoCall
    /\ tx = IdleTx
    /\ mc = IdleMc
    /\ lm = IdleLm
    /\ dt = IdleDt
    /\ \E segs \in StampedLists, write_srt \in BOOLEAN :
          srt = [pc |-> "loop", segs |-> segs, write_srt |-> write_srt,
                 i |-> 0, seg_index |-> 1, srt_lines |-> << >>,
                 srt_out |-> None, files |-> << >>]

SrtOnly ==
    UNCHANGED <<jobs, allocated, transcripts, recs, task, clock, last, tx, mc, lm, dt>>

\* lines 214-225: the next segment; with write_srt its cue is appended
SRT_segment ==
    /\ srt.pc = "loop"
    /\ srt.i < Len(srt.segs)
    /\ LET seg == srt.segs[srt.i + 1]
       IN IF srt.write_srt
          THEN srt' = [srt EXCEPT
                         !.i = @ + 1,
                         !.srt_lines = @ \o <<[index |-> srt.seg_index],
                                              [start |-> Fmt(seg.start),
                                               end |-> Fmt(seg.end)],
                                              [text |-> seg.text],
                                              [blank |-> TRUE]>>,
                         !.seg_index = @ + 1]
          ELSE srt' = [srt EXCEPT !.i = @ + 1]
    /\ SrtOnly

\* "\n".join(srt_lines).strip(): the lines without the trailing empty one
Stripped(lines) ==
    IF lines # << >> /\ lines[Len(lines)] = [blank |-> TRUE]
    THEN SubSeq(lines, 1, Len(lines) - 1) ELSE lines

\* lines 227-228: srt_out is the joined text if write_srt, else None
SRT_join ==
    /\ srt.pc = "loop"
    /\ srt.i = Len(srt.segs)
    /\ srt' = [srt EXCEPT !.pc = "write",
                          !.srt_out = IF srt.write_srt
                                      THEN Some(Stripped(srt.srt_lines)) ELSE None]
    /\ SrtOnly

\* lines 230-232: the .txt is written, the .srt only if srt_out is not None
SRT_write ==
    /\ srt.pc = "write"
    /\ srt' = [srt EXCEPT
                 !.pc = "written",
                 !.files = IF srt.srt_out # None
                           THEN [f \in {".txt", ".srt"} |->
                                   IF f = ".srt" THEN CHOOSE c \in srt.srt_out : TRUE
                                   ELSE "text"]
                           ELSE [f \in {".txt"} |-> "text"]]
    /\ SrtOnly

NextSRT ==
    \/ SRT_segment
    \/ SRT_join
    \/ SRT_write

SpecSRT == InitSRT /\ [][NextSRT]_vars

---------------------------------------------------------------------------
(* Properties *)

Rows == DOMAIN jobs


\* the row has a column of that name
Has(row, name) == name \in DOMAIN row

\* C1: once a job is done or error, a later mark_job_running or
\* update_job_progress call on it is a no-op: the call returns and the row,
\* with its progress, stage and eta_seconds, is as it was.
C1_TerminalCallsIgnored ==
    [][\A j \in Rows :
          (/\ Terminal(jobs[j])
           /\ last'.job = Some(j)
           /\ last'.op \in {"mark_job_running", "update_job_progress"})
          => (/\ last'.result = "returned"
              /\ j \in DOMAIN jobs'
              /\ jobs'[j] = jobs[j]
              /\ {"progress", "stage", "eta_seconds"} \subseteq DOMAIN jobs'[j])]_vars

\* C2: after the complete transition the job has progress 1.0, result_ref the
\* transcript id the run produced, and no error.
C2_DoneHasFullProgress ==
    \A j \in Rows :
        jobs[j].status = "done"
        => (/\ Has(jobs[j], "progress")
            /\ jobs[j].progress = One
            /\ jobs[j].result_ref = Some(TrId(j))
            /\ jobs[j].error = None)

\* C3: a done job has a result_ref and no error, an error job has an error and
\* no result_ref, and a queued or running job has neither.
C3_ResultXorError ==
    \A j \in Rows :
        /\ jobs[j].status = "done"
           => (jobs[j].result_ref # None /\ jobs[j].error = None)
        /\ jobs[j].status = "error"
           => (jobs[j].error # None /\ jobs[j].result_ref = None)
        /\ jobs[j].status \in {"queued", "running"}
           => (jobs[j].result_ref = None /\ jobs[j].error = None)

\* C3 witness: a job is in error with an error code and no result_ref, after
\* having been queued with neither
C3_Witness ==
    \E j \in Rows :
        /\ jobs[j].status = "error"
        /\ jobs[j].error # None
        /\ jobs[j].result_ref = None
        /\ last.op = "get_job"
        /\ last.job = Some(j)

AllowedTransitions ==
    {<<"queued", "running">>, <<"running", "done">>,
     <<"running", "error">>, <<"queued", "error">>}

\* C4: the status of a job changes only along queued -> running,
\* running -> done, running -> error, queued -> error.
C4_StatusOneDirectional ==
    [][\A j \in Rows \cap DOMAIN jobs' :
          jobs'[j].status # jobs[j].status
          => <<jobs[j].status, jobs'[j].status>> \in AllowedTransitions]_vars



\* the failures that come from outside the pipeline: the engine, the store
\* unreachable, the insert of the transcript row
OutsideFailures == {Some("transcribe_failed"), Some("insert_failed"), Some("db_error")}

\* the progress the row of job_id holds: None when there is no row or the row
\* has no such attribute
StoredProgress(tbl, job_id) ==
    IF job_id \in DOMAIN tbl /\ Has(tbl[job_id], "progress")
    THEN Some(tbl[job_id].progress)
    ELSE None

\* the arguments the decode callback of job j hands to update_job_progress in
\* this step
CallbackArgs(j) == CHOOSE a \in task'[j].sent : TRUE

\* a step in which the decode callback of job j computes its estimate and
\* calls update_job_progress
CallbackIssues(j) ==
    /\ task[j].pc = "progress_cb"
    /\ task[j].phase = "run"
    /\ task'[j].pc # "progress_cb" \/ task'[j].phase # "run"

C6_DeletedStaysDeleted ==
    [][\A j \in allocated :
          (/\ last.op = "delete_job"
           /\ last.job = Some(j)
           /\ last'.op = "get_job"
           /\ last'.job = Some(j))
          => /\ last'.result = "404"
             /\ GetJob(jobs', j) = None]_vars

\* C7: a store call the background task makes for a job after DELETE
\* /api/jobs/{id} was requested for it is a no-op: it returns at the lookup,
\* loads no row to write, writes nothing and does not raise.
C7_DeletedCallsNeverRaise ==
    [][\A j \in allocated :
          (/\ last.op = "delete_job"
           /\ last.job = Some(j)
           /\ task[j].pc \in StoreSites
           /\ task'[j] # task[j])
          => /\ jobs' = jobs
             /\ task'[j].phase = "run"
             /\ task'[j].pc # "crashed"
             /\ task'[j].exc = task[j].exc]_vars

\* C8: the stored progress is always within [0, 1], and each
\* update_job_progress call on an existing job stores max(0, min(1, input)).
C8_ProgressClamped ==
    /\ [](\A j \in Rows : /\ Has(jobs[j], "progress")
                          /\ jobs[j].progress >= 0
                          /\ jobs[j].progress <= One)
    /\ [][\A j \in Rows :
            (/\ last'.op = "update_job_progress"
             /\ last'.job = Some(j)
             /\ last'.result \in {"returned", "raised"})
            => /\ last'.result = "returned"
               /\ j \in DOMAIN jobs'
               /\ Has(jobs'[j], "progress")
               /\ jobs'[j].progress =
                    (IF last'.progress < 0 THEN 0
                     ELSE IF last'.progress > One THEN One
                     ELSE last'.progress)]_vars

\* C9: whenever the status of a job becomes error, its error is set and its
\* result_ref is null.
C9_FailSetsError ==
    [][\A j \in Rows \cap DOMAIN jobs' :
          (jobs[j].status # "error" /\ jobs'[j].status = "error")
          => (jobs'[j].error # None /\ jobs'[j].result_ref = None)]_vars


\* C9 witness: the update of line 26 has put the queued job in error with its
\* code and without a result_ref
C9_Witness ==
    \E j \in Rows :
        /\ task[j].pc = "finished"
        /\ task[j].exc = None
        /\ jobs[j].status = "error"
        /\ jobs[j].error = Some("original_missing")
        /\ jobs[j].result_ref = None

\* the error code of each pre-flight failure
PreflightCode(cause) ==
    IF cause = "row_absent" THEN "recording_not_found" ELSE "original_missing"


\* C10: a task whose recording row was absent or whose original file was
\* missing never marks the job running, never calls the engine, and leaves
\* the job queued until it is in error with the code of that failure.
C10_PreflightFailsFast ==
    \A j \in JobIds :
        task[j].pre # None
        => /\ ~task[j].engine
           /\ task[j].sent = None
           /\ task[j].pc \in {"get_recording", "path_exists", "finished", "crashed"}
           /\ j \in Rows
              => /\ jobs[j].status \in {"queued", "error"}
                 /\ jobs[j].status = "error"
                    => \E c \in task[j].pre : jobs[j].error = Some(PreflightCode(c))
                 /\ (task[j].pc = "finished" /\ ~task[j].skipped)
                    => jobs[j].status = "error"
           /\ PreflightCode("row_absent") # PreflightCode("file_missing")

\* C10 witness: the original file was missing and the job, never running, is
\* in error with the code original_missing; the engine was not called
C10_Witness ==
    \E j \in Rows :
        /\ task[j].pre = Some("file_missing")
        /\ task[j].pc = "finished"
        /\ ~task[j].engine
        /\ jobs[j].status = "error"
        /\ jobs[j].error = Some("original_missing")
        /\ last.op = "post_transcribe"

\* a recording id is known when the recording table has a row for it
KnownRecording(r) == r \in RecIds /\ recs[r].row

\* C11 as stated: a creation request naming an unknown recording leaves a job
\* (which then goes to error).
C11_UnknownRecordingGivesJob ==
    (last.op = "post_transcribe" /\ last.result = "404") => last.job # None

\* C11 amended: a creation request naming an unknown recording is answered
\* not-found; it creates no job row, hands out no job id and schedules no
\* task, so no job of it ever reaches running or error.
C11_UnknownRecordingRejected ==
    [][\A r \in RecIds \cup {"rec_unknown"} :
          (/\ ~KnownRecording(r)
           /\ last'.op = "post_transcribe"
           /\ last'.rec = Some(r)
           /\ last' # last)
          => (/\ last'.result = "404"
              /\ last'.job = None
              /\ jobs' = jobs
              /\ allocated' = allocated
              /\ task' = task)]_vars

\* C11 witness: a request for a recording id that never existed was
\* answered 404 and there is no job row
C11_Witness ==
    /\ last.op = "post_transcribe"
    /\ last.rec = Some("rec_unknown")
    /\ last.result = "404"
    /\ Rows = {}

\* C12: no exception leaves _run_transcription_job, and a run that ended
\* after an exception left the job (if it still has a row) in error with the
\* exception's message.
C12_NoExceptionEscapes ==
    \A j \in JobIds :
        /\ task[j].pc # "crashed"
        /\ (task[j].pc = "finished" /\ task[j].exc # None /\ j \in Rows)
           => (jobs[j].status = "error" /\ jobs[j].error = task[j].exc)

\* the line transcribe_audio must write for segment i of the engine's output
ExpectedLine(t, i) ==
    [speaker |-> IF (i - 1) \in DOMAIN t.speaker_by_index
                 THEN Some(t.speaker_by_index[i - 1]) ELSE None,
     text |-> t.segs[i].text]

\* C13: when diarization was requested and speaker segments were obtained,
\* the returned text has one line for every segment the engine produces, in
\* order, prefixed with the speaker assigned to that index or unprefixed.
C13_EverySegmentHasALine ==
    (tx.pc = "returned" /\ tx.diarize /\ DiarSegments(tx) # << >>)
    => /\ Len(tx.txt_lines) = Len(tx.segs)
       /\ \A i \in 1 .. Len(tx.segs) : tx.txt_lines[i] = ExpectedLine(tx, i)

\* C14: a failed diarization step never raises out of transcribe_audio and
\* leaves the output unlabelled, one line per segment; when diarization is
\* not requested the diarization engine is not invoked.
C14_DiarizationBestEffort ==
    /\ tx.pc # "raised"
    /\ (tx.diarize /\ tx.outcome # "ok" /\ tx.pc \in {"assign", "loop", "returned"})
       => (tx.diar = None /\ DOMAIN tx.speaker_by_index = {})
    /\ (tx.diarize /\ tx.outcome # "ok" /\ tx.pc = "returned")
       => /\ Len(tx.txt_lines) = Len(tx.segs)
          /\ \A i \in 1 .. Len(tx.segs) :
                tx.txt_lines[i] = [speaker |-> None, text |-> tx.segs[i].text]
    /\ ~tx.diarize => (tx.diar_calls = 0 /\ tx.diar = None)

\* C14 witness: the diarization run failed and transcribe_audio returned
\* two unlabelled lines
C14_Witness ==
    /\ tx.pc = "returned"
    /\ tx.diarize
    /\ tx.outcome = "run_error"
    /\ tx.diar_calls = 1
    /\ Len(tx.txt_lines) = 2
    /\ \A i \in 1 .. 2 : tx.txt_lines[i].speaker = None

\* C14 (the job): a job whose run has passed pre-flight is never put in error
\* by anything but a failure of the engine, the database or the transcript
\* insert, and, diarization requested and failing or not, it completes as
\* done unless one of those fails.
C14_DiarizationFailureStillDone ==
    /\ [](\A j \in JobIds :
            (j \in DOMAIN jobs /\ jobs[j].status = "error")
            => (task[j].pre # None \/ task[j].exc # None))
    /\ \A j \in JobIds :
          (task[j].pc = "mark_running" /\ task[j].exc = None)
          ~> \/ task[j].exc \in OutsideFailures
             \/ (j \in DOMAIN jobs /\ jobs[j].status = "done")

\* overlap of transcription segment i (from 1) with speaker segment k of d
Ov(t, d, i, k) == Overlap(t.segs[i].start, t.segs[i].end, d[k].start, d[k].end)

\* the greatest overlap of transcription segment i with a speaker segment
MaxOv(t, d, i) ==
    CHOOSE m \in {Ov(t, d, i, k) : k \in 1 .. Len(d)} :
        \A k \in 1 .. Len(d) : Ov(t, d, i, k) <= m

\* C15: every transcription segment with positive overlap is mapped to the
\* label of the first speaker segment that attains the maximum overlap;
\* [0,10) against [0,4) A, [4,10) B gives B, against [0,5) A, [5,10) B gives A.
C15_FirstMaxOverlapWins ==
    /\ (tx.pc \in {"loop", "returned"} /\ DiarSegments(tx) # << >>)
       => LET d == DiarSegments(tx)
          IN \A i \in 1 .. Len(tx.segs) :
                MaxOv(tx, d, i) > 0
                => /\ (i - 1) \in DOMAIN tx.speaker_by_index
                   /\ \E k \in 1 .. Len(d) :
                         /\ Ov(tx, d, i, k) = MaxOv(tx, d, i)
                         /\ \A k2 \in 1 .. k - 1 : Ov(tx, d, i, k2) < MaxOv(tx, d, i)
                         /\ tx.speaker_by_index[i - 1] = d[k].label
    /\ LET seg == <<[start |-> 0, end |-> 10, text |-> "t"]>>
           A == Speaker(1)
           B == Speaker(2)
       IN /\ AssignSpeakers(seg, <<[start |-> 0, end |-> 4, label |-> A],
                                   [start |-> 4, end |-> 10, label |-> B]>>)[0] = B
          /\ AssignSpeakers(seg, <<[start |-> 0, end |-> 5, label |-> A],
                                   [start |-> 5, end |-> 10, label |-> B]>>)[0] = A

\* C15 witness: the aligner ran on [0,10) against [0,5) and [5,10), an exact
\* tie, and mapped index 0 to the first speaker
C15_Witness ==
    /\ tx.pc = "loop"
    /\ Len(tx.segs) = 1 /\ tx.segs[1].start = 0 /\ tx.segs[1].end = 10
    /\ Len(DiarSegments(tx)) = 2
    /\ DiarSegments(tx)[1] = [start |-> 0, end |-> 5, label |-> Speaker(1)]
    /\ DiarSegments(tx)[2] = [start |-> 5, end |-> 10, label |-> Speaker(2)]
    /\ tx.speaker_by_index[0] = Speaker(1)

\* C16: a transcription segment whose overlap with every speaker segment is
\* zero has no entry (also for an empty speaker list), and every key of the
\* mapping is a segment index with positive overlap with the chosen speaker
\* segment.
C16_NoEntryWithoutOverlap ==
    tx.pc \in {"loop", "returned"}
    => LET d == DiarSegments(tx)
       IN /\ DOMAIN AssignSpeakers(tx.segs, << >>) = {}
          /\ \A i \in 1 .. Len(tx.segs) :
                (\A k \in 1 .. Len(d) : Ov(tx, d, i, k) = 0)
                => (i - 1) \notin DOMAIN tx.speaker_by_index
          /\ \A key \in DOMAIN tx.speaker_by_index :
                /\ key \in 0 .. Len(tx.segs) - 1
                /\ \E k \in 1 .. Len(d) :
                      /\ d[k].label = tx.speaker_by_index[key]
                      /\ Ov(tx, d, key + 1, k) > 0

\* C16 witness: the aligner ran on [0,4) against the speaker segment [4,5),
\* which only touches it, and returned an empty mapping
C16_Witness ==
    /\ tx.pc = "loop"
    /\ Len(tx.segs) = 1 /\ tx.segs[1].start = 0 /\ tx.segs[1].end = 4
    /\ Len(DiarSegments(tx)) = 1
    /\ DiarSegments(tx)[1].start = 4
    /\ tx.gen = 1
    /\ DOMAIN tx.speaker_by_index = {}

\* the number of distinct raw labels among the first i entries
DistinctUpTo(raw, i) == Cardinality({raw[n].label : n \in 1 .. i})

\* the entry where the raw label of entry i first appears
FirstSeen(raw, i) ==
    CHOOSE m \in 1 .. i :
        /\ raw[m].label = raw[i].label
        /\ \A n \in 1 .. m - 1 : raw[n].label # raw[i].label

\* C17: normalization gives the k-th distinct raw label the display label
\* "Speaker k", equal raw labels equal display labels and distinct ones
\* distinct labels, and leaves times and order unchanged.
C17_LabelsInFirstSeenOrder ==
    (tx.pc \in {"assign", "loop", "returned"} /\ tx.diarize /\ tx.outcome = "ok")
    => /\ tx.diar # None
       /\ LET d == CHOOSE x \in tx.diar : TRUE
              raw == tx.raw
          IN /\ Len(d) = Len(raw)
             /\ \A i \in 1 .. Len(raw) :
                   /\ d[i].start = raw[i].start
                   /\ d[i].end = raw[i].end
                   /\ d[i].label = Speaker(DistinctUpTo(raw, FirstSeen(raw, i)))
             /\ \A i, j \in 1 .. Len(raw) :
                   (raw[i].label = raw[j].label) <=> (d[i].label = d[j].label)

\* C17 witness: the run yielded SPEAKER_01 before SPEAKER_00 and they became
\* Speaker 1 and Speaker 2 in that order
C17_Witness ==
    /\ tx.pc = "assign"
    /\ Len(tx.raw) = 2
    /\ tx.raw[1].label = "SPEAKER_01"
    /\ tx.raw[2].label = "SPEAKER_00"
    /\ DiarSegments(tx)[1].label = Speaker(1)
    /\ DiarSegments(tx)[2].label = Speaker(2)


\* q is x / y rounded down, for y > 0
IsFloorOf(q, x, y) == q * y <= x /\ x < (q + 1) * y

\* C18: with a positive total duration a decode callback yields
\* progress = min(decoded / total, 0.99) and
\* eta = (elapsed / max(progress, 0.001)) * (1 - progress), from the current
\* decoded, total and elapsed only; total 100, decoded 50, elapsed 10 gives
\* progress 0.5 and eta 10.
C18_DecodeEstimate ==
    [][/\ \A j \in JobIds :
            (CallbackIssues(j) /\ task[j].total > 0)
            => LET a == CallbackArgs(j)
                   elapsed == clock - task[j].t0
                   p == a.progress
               IN /\ task'[j].sent # None
                  /\ IF task[j].decoded * One >= DecodeCap * task[j].total
                     THEN p = DecodeCap
                     ELSE IsFloorOf(p, task[j].decoded * One, task[j].total)
                  /\ a.eta_seconds # None
                  /\ \A eta \in a.eta_seconds :
                        IsFloorOf(eta, elapsed * One * (One - p), Max(p, EtaEpsilon))
                  /\ a.stage = Some("decoding")
       /\ DecodeProgress(50, 100) = 500
       /\ DecodeEta(500, 10) = 10 * One]_vars

\* C18 witness: total 100, decoded 50 after 30 s: the callback of a job that
\* has its row has handed the store progress 0.5 and an eta of 30 s
C18_Witness ==
    \E j \in JobIds :
        /\ j \in DOMAIN jobs
        /\ task[j].total = 100
        /\ task[j].decoded = 50
        /\ task[j].pc = "segments"
        /\ task[j].sent = Some([progress |-> 500, stage |-> Some("decoding"),
                                eta_seconds |-> Some(30 * One)])

\* C19: the progress a decode callback computes and hands to
\* update_job_progress is never above 0.99, whatever the decoded time: it is
\* 0.99 when the decoded time has reached the total, and the clamp of the
\* store leaves it below 1.0.
C19_RunningBelowOne ==
    [][\A j \in JobIds :
          CallbackIssues(j)
          => /\ CallbackArgs(j).progress <= DecodeCap
             /\ Clamp(CallbackArgs(j).progress) < One
             /\ (task[j].total > 0 /\ task[j].decoded >= task[j].total)
                => CallbackArgs(j).progress = DecodeCap]_vars

\* C19 witness: the decoded time has passed the total and the callback of a
\* job that has its row has handed the store 0.99
C19_Witness ==
    \E j \in JobIds :
        /\ j \in DOMAIN jobs
        /\ task[j].total > 0
        /\ task[j].decoded > task[j].total
        /\ task[j].pc = "segments"
        /\ \E a \in task[j].sent : a.progress = DecodeCap /\ a.stage = Some("decoding")

C20_FallbackEstimate ==
    [][\A j \in JobIds :
          (CallbackIssues(j) /\ task[j].total <= 0)
          => LET a == CallbackArgs(j)
                 elapsed == clock - task[j].t0
             IN /\ a.progress = FallbackProgress(elapsed)
                /\ a.progress <= FallbackCap
                /\ a.eta_seconds = None]_vars

\* C21: update_job_progress is a partial update: the call goes through, sets
\* the progress, leaves the stage unchanged when no stage is given, leaves
\* eta_seconds unchanged when no eta is given, and never changes status,
\* result_ref or error.
C21_ProgressIsPartialUpdate ==
    [][\A j \in JobIds :
          (/\ last'.op = "update_job_progress"
           /\ last'.job = Some(j)
           /\ last'.result \in {"returned", "raised"}
           /\ j \in DOMAIN jobs)
          => /\ last'.result = "returned"
             /\ j \in DOMAIN jobs'
             /\ {"progress", "stage", "eta_seconds"} \subseteq DOMAIN jobs'[j]
             /\ jobs'[j].stage = IF last'.stage = None THEN jobs[j].stage
                                 ELSE CHOOSE s \in last'.stage : TRUE
             /\ jobs'[j].eta_seconds = IF last'.eta_seconds = None
                                       THEN jobs[j].eta_seconds
                                       ELSE last'.eta_seconds
             /\ jobs'[j].status = jobs[j].status
             /\ jobs'[j].result_ref = jobs[j].result_ref
             /\ jobs'[j].error = jobs[j].error]_vars

\* the end times of the first n segments the engine produces, in order
EndsOf(t, n) == [i \in 1 .. n |-> t.segs[i].end]

\* C22: the output is written only after every segment has been consumed and
\* its progress callback issued.
C22_WriteAfterAllSegments ==
    tx.pc = "returned"
    => /\ tx.gen = Len(tx.segs)
       /\ Len(tx.txt_lines) = Len(tx.segs)
       /\ Len(tx.cb) = Len(tx.segs)

\* C23: the progress sink is called exactly once per segment the engine
\* produces, with that segment's end, in segment order, and for all of them
\* by the time transcribe_audio returns, with and without diarization.
C23_OneCallbackPerSegment ==
    /\ Len(tx.cb) <= Len(tx.segs)
    /\ tx.cb = EndsOf(tx, Len(tx.cb))
    /\ tx.pc = "returned" => tx.cb = EndsOf(tx, Len(tx.segs))

\* C24: deleting an existing job removes its row and succeeds; deleting an
\* absent job is answered not-found and changes nothing; a second delete of
\* the same id is answered not-found.
C24_DeleteReportsExistence ==
    [][\A j \in JobIds :
          (/\ last'.op = "delete_job"
           /\ last'.job = Some(j)
           /\ last' # last)
          => /\ IF j \in DOMAIN jobs
                THEN /\ last'.result = "204"
                     /\ jobs' = [k \in DOMAIN jobs \ {j} |-> jobs[k]]
                ELSE /\ last'.result = "404"
                     /\ jobs' = jobs
             /\ (last.op = "delete_job" /\ last.job = Some(j) /\ last.result = "204")
                => last'.result = "404"]_vars



\* a step in which caller c of load_model looks its key up
LooksUp(c) == mc.call[c].pc = "get" /\ mc'.call[c].pc # "get"

\* C25: a load_model call that finds its key in the cache returns the cached
\* instance and constructs nothing; an instance is constructed only by a call
\* whose lookup missed; no cache entry is ever removed.
C25_CacheReusedNeverEvicted ==
    [][/\ \A c \in Callers :
            LooksUp(c)
            => IF KeyOf(c) \in DOMAIN mc.cache
               THEN /\ mc'.call[c].pc = "returned"
                    /\ mc'.call[c].m = Some(mc.cache[KeyOf(c)])
                    /\ mc'.built = mc.built
                    /\ mc'.cache = mc.cache
               ELSE mc'.call[c].pc = "construct"
       /\ Len(mc'.built) > Len(mc.built)
          => \E c \in Callers : /\ mc.call[c].pc = "construct"
                                /\ mc.call[c].m = None
                                /\ mc'.built = Append(mc.built, KeyOf(c))
       /\ DOMAIN mc.cache \subseteq DOMAIN mc'.cache]_vars

\* C25 witness: two calls were made, one instance was constructed, and the
\* caller that has just returned holds that cached instance
C25_Witness ==
    /\ mc.loads = 2
    /\ Len(mc.built) = 1
    /\ \A c \in Callers : mc.call[c].pc \in {"idle", "returned"}
    /\ \E c \in Callers :
          /\ mc.call[c].pc = "returned"
          /\ mc.call[c].m = Some(1)
          /\ mc.cache[KeyOf(c)] = 1

\* None or "": the values resolved() replaces by a default
Unset(x) == x = None \/ x = Some("")

\* a step in which caller c of load_model resolves its options
Resolves(c) == mc.call[c].pc = "resolve" /\ mc'.call[c].pc = "get"

\* device and compute as the claim states them
ResolvedDeviceCompute(opts, o) ==
    /\ o.device = IF Unset(opts.device) THEN Some("cpu") ELSE opts.device
    /\ o.compute = IF ~Unset(opts.compute) THEN opts.compute
                   ELSE IF o.device = Some("cuda") THEN Some("float16")
                   ELSE Some("int8")

\* C26 as stated: device and compute get their defaults and every other
\* option, the model and the subtitle toggle included, is carried over
\* unchanged.
C26_ResolvedCarriesAllOthers ==
    [][\A c \in Callers :
          Resolves(c)
          => LET opts == CHOOSE x \in mc.call[c].opts : TRUE
                 o == CHOOSE x \in mc'.call[c].o : TRUE
             IN /\ ResolvedDeviceCompute(opts, o)
                /\ \A f \in CarriedOptions \cup {"model", "srt"} : o[f] = opts[f]]_vars

\* C26 amended: device and compute get their defaults, an unset model
\* resolves to "small", an unset subtitle toggle to false, and the remaining
\* options are carried over unchanged.
C26_ResolvedFillsDefaults ==
    [][\A c \in Callers :
          Resolves(c)
          => LET opts == CHOOSE x \in mc.call[c].opts : TRUE
                 o == CHOOSE x \in mc'.call[c].o : TRUE
             IN /\ ResolvedDeviceCompute(opts, o)
                /\ o.model = IF Unset(opts.model) THEN Some("small") ELSE opts.model
                /\ o.srt = Some(opts.srt = Some(TRUE))
                /\ \A f \in CarriedOptions : o[f] = opts[f]]_vars

\* C26 witness: options with only the device given, cuda, were resolved to
\* model small and compute float16
C26_Witness ==
    \E c \in Callers :
        /\ mc.call[c].pc = "get"
        /\ \E opts \in mc.call[c].opts, o \in mc.call[c].o :
              /\ opts.model = None /\ opts.device = Some("cuda")
              /\ opts.compute = None /\ opts.srt = None
              /\ o.model = Some("small") /\ o.device = Some("cuda")
              /\ o.compute = Some("float16") /\ o.srt = Some(FALSE)

\* C30: at most one engine instance is constructed for a key, all callers
\* with that key receive the same instance, and the cache entry of a key is
\* never replaced by a different instance.
C30_OneInstancePerKey ==
    [][/\ \A i, k \in 1 .. Len(mc'.built) : mc'.built[i] = mc'.built[k] => i = k
       /\ \A c, d \in Callers :
             (/\ mc'.call[c].pc = "returned" /\ mc'.call[d].pc = "returned"
              /\ mc'.call[c].key = mc'.call[d].key)
             => mc'.call[c].m = mc'.call[d].m
       /\ \A key \in DOMAIN mc.cache : mc'.cache[key] = mc.cache[key]]_vars

\* C27: the job-creation endpoint inserts a row with status queued,
\* progress 0, stage "queued" and eta_seconds, started_at, result_ref, error
\* all null, schedules the background task without running any of it, and
\* answers queued.
C27_CreatedQueued ==
    [][\A j \in JobIds :
          (j \notin allocated /\ j \in allocated')
          => /\ j \notin DOMAIN jobs
             /\ j \in DOMAIN jobs'
             /\ jobs'[j] = [status |-> "queued", progress |-> 0, stage |-> "queued",
                            eta_seconds |-> {}, started_at |-> {},
                            result_ref |-> {}, error |-> {}]
             /\ task[j].pc = "idle"
             /\ task'[j].pc = "get_recording"
             /\ task'[j].phase = "run"
             /\ last'.op = "post_transcribe"
             /\ last'.job = Some(j)
             /\ last'.result = "queued"]_vars

\* n < 100 as two digits, n < 1000 as three digits
TwoDigits(n) == <<n \div 10, n % 10>>

ThreeDigits(n) == <<n \div 100, (n \div 10) % 10, n % 10>>

\* HH:MM:SS,mmm of a time of t milliseconds
Timestamp(t) ==
    [h |-> TwoDigits(t \div 3600000), m |-> TwoDigits((t \div 60000) % 60),
     s |-> TwoDigits((t \div 1000) % 60), ms |-> ThreeDigits(t % 1000)]

\* C28: a subtitle file is written only when requested; its cues are
\* numbered 1, 2, 3, ... in segment order, and each time of t milliseconds is
\* rendered with HH = t div 3600000, MM = (t div 60000) mod 60,
\* SS = (t div 1000) mod 60, mmm = t mod 1000, two, two, two and three digits.
C28_SubtitleFormat ==
    srt.pc = "written"
    => /\ (".srt" \in DOMAIN srt.files) <=> srt.write_srt
       /\ srt.write_srt
          => LET lines == srt.files[".srt"]
                 n == Len(srt.segs)
             IN /\ Len(lines) = IF n = 0 THEN 0 ELSE 4 * n - 1
                /\ \A k \in 1 .. n :
                      /\ lines[4 * k - 3] = [index |-> k]
                      /\ lines[4 * k - 2] = [start |-> Timestamp(srt.segs[k].start),
                                             end |-> Timestamp(srt.segs[k].end)]
                      /\ lines[4 * k - 1] = [text |-> srt.segs[k].text]

\* C29: every job whose background task was started eventually has status
\* done or error, or has no row any more.
C29_StartedJobsEnd ==
    \A j \in JobIds :
        (task[j].pc # "idle")
        ~> (j \notin DOMAIN jobs \/ jobs[j].status \in {"done", "error"})



\* the stage labels that may follow a stage label
StageSuccessors(stage) ==
    CASE stage = "queued"         -> {"queued", "loading_model"}
      [] stage = "loading_model"  -> {"loading_model", "decoding", "writing_output"}
      [] stage = "decoding"       -> {"decoding", "writing_output"}
      [] stage = "writing_output" -> {"writing_output"}
      [] OTHER                    -> {}

\* C32: the stored stage of a job is "queued" at creation and then moves only
\* forward through "loading_model", "decoding", "writing_output"; a done job
\* has stage "writing_output" and a job failed pre-flight keeps "queued".
C32_StageSequence ==
    [][\A j \in JobIds :
          /\ j \in DOMAIN jobs' => Has(jobs'[j], "stage")
          /\ (j \in DOMAIN jobs /\ j \in DOMAIN jobs')
             => jobs'[j].stage \in StageSuccessors(jobs[j].stage)
          /\ (j \notin DOMAIN jobs /\ j \in DOMAIN jobs')
             => jobs'[j].stage = "queued"
          /\ (j \in DOMAIN jobs' /\ jobs'[j].status = "done")
             => jobs'[j].stage = "writing_output"
          /\ (j \in DOMAIN jobs' /\ jobs'[j].status = "error" /\ task'[j].pre # None)
             => jobs'[j].stage = "queued"]_vars

\* the steps of its run a task is in while the run is in flight
InFlight == {"get_recording", "path_exists", "mark_running", "probe", "loading",
             "load_model", "transcribe", "segments", "progress_cb",
             "writing_output", "create_transcript", "status_done", "except"}

\* C33: a DELETE /api/jobs/{id} requested while the task of the job is in
\* flight removes the row and does not stop the task: unless the run fails
\* pre-flight or something outside the pipeline fails, it goes on and leaves
\* its transcript row, which no job row then refers to.
C33_DeleteDoesNotCancel ==
    \A j \in JobIds :
        (/\ last.op = "delete_job"
         /\ last.job = Some(j)
         /\ task[j].pc \in InFlight
         /\ task[j].pre = None
         /\ task[j].exc = None)
        ~> \/ task[j].pre # None
           \/ task[j].exc \in OutsideFailures
           \/ (j \notin DOMAIN jobs /\ TrId(j) \in transcripts)

\* C34 (first part): a step in which the decode callback's store call ends,
\* by returning or by raising, goes on to the next segment with no exception
\* recorded, and the job row is changed only by a commit that succeeds; the
\* step in which the call raises leaves the job table as it was.
SinkFailureLeavesNoTrace ==
    [][\A j \in JobIds :
         /\ (task[j].pc = "progress_cb" /\ task'[j].pc # "progress_cb")
            => /\ task'[j].pc = "segments"
               /\ task'[j].phase = "run"
               /\ task'[j].exc = task[j].exc
               /\ task'[j].nseg = task[j].nseg
               /\ \/ jobs' = jobs
                  \/ /\ task[j].phase = "commit"
                     /\ j \in DOMAIN jobs
                     /\ task[j].dropped = task'[j].dropped
         /\ task'[j].dropped # task[j].dropped
            => /\ task[j].pc = "progress_cb"
               /\ task'[j].pc = "segments"
               /\ task'[j].dropped
               /\ task'[j].exc = task[j].exc
               /\ jobs' = jobs]_vars

\* C34: an exception raised by the progress sink is swallowed: segment
\* consumption goes on, the stored job is not changed by the failed callback,
\* and the job still reaches done: a started job that is not deleted, whose
\* input is there and for which nothing from outside fails but calls of the
\* progress sink, is eventually done.
C34_SinkFailureSwallowed ==
    /\ SinkFailureLeavesNoTrace
    /\ \A j \in JobIds :
          (task[j].pc # "idle")
          ~> \/ j \notin DOMAIN jobs
             \/ task[j].pre # None
             \/ task[j].exc \in OutsideFailures
             \/ jobs[j].status = "done"

\* a run went on after a callback raised and ended normally
SinkFailureSwallowed_Reached ==
    \E j \in allocated :
        /\ task[j].dropped
        /\ task[j].nseg = 2
        /\ task[j].exc = None
        /\ task[j].pc = "finished"
        /\ TrId(j) \in transcripts

====
